---- MODULE Spec2Model ----
(***************************************************************************)
(* osram-cli: the multi-provider dispatcher (call_api, switch_provider,    *)
(* chat, load_config/save_config), the per-provider request bodies         *)
(* (prepare_body) and stream decoders (parse_stream), modelled from        *)
(* src/build/lib/osram_cli and src/osram_cli.                              *)
(*                                                                         *)
(* Specifications: Spec (the dispatcher and the configuration file),       *)
(* SpecFresh (the same from a fresh install), SpecDecode (one parse_stream *)
(* generator over a finite response), SpecBody (prepare_body on a          *)
(* conversation), SpecConcurrent (two call_api invocations in flight),     *)
(* SpecSession (the interactive chat loop) and SpecTrash                   *)
(* (delete_file_or_path and the trash directory).                          *)
(*                                                                         *)
(* Texts (URLs, console messages, exception texts) are sequences of string *)
(* tokens, so that "this text contains the api key" is a membership test.  *)
(***************************************************************************)
EXTENDS Integers, Sequences, FiniteSets, TLC

VARIABLES
    cfgFile,    \* the persisted ~/.osram_config.json
    last,       \* record of the operation that ran last (its inputs and effects)
    dprov,      \* decoder under test: provider class
    dcopy,      \* decoder under test: which copy of providers.py ("build" | "src")
    lines,      \* the response lines handed to parse_stream (line ids)
    pos,        \* number of lines the decoder has consumed
    out,        \* fragments yielded so far
    dstatus,    \* "running" | "exhausted" | "raised" | "closed" | "broken"
    pulling,    \* the caller is inside next() on the generator parse_stream returned
    messages,   \* the conversation handed to prepare_body
    body,       \* the request body prepare_body returned (and for which provider)
    calls,      \* call_api invocations in flight: each one's provider, response
                \* and generator (lines read, fragments yielded, status)
    session,    \* the interactive chat session: provider and model resolved at
                \* its start, the messages list, and the latest call_api it made
    trash,      \* ~/.osram_cli/trash: entry name -> the item stored under it
    trashed     \* the items delete_file_or_path reported as moved, in order

cfgVars == <<cfgFile, last>>
decVars == <<dprov, dcopy, lines, pos, out, dstatus, pulling>>
bodyVars == <<messages, body>>
conVars == <<calls>>
chatVars == <<session>>
fsVars == <<trash, trashed>>
vars == <<cfgFile, last, dprov, dcopy, lines, pos, out, dstatus, pulling, messages, body,
          calls, session, trash, trashed>>

-----------------------------------------------------------------------------
(* Python values used by the dispatcher *)

None == "None"

\* Python truthiness of an optional string argument (`x or ...`, `if x:`).
Falsy(x) == x \in {None, ""}

-----------------------------------------------------------------------------
(* Static provider data *)

AVAILABLE_MODELS ==
    [ zai |-> { "GLM-4.5", "GLM-4-Plus", "GLM-4.5-X", "GLM-4.5-Air", "GLM-4.5-AirX",
                "GLM-4.5-Flash", "GLM-4-32B-0414-128K", "ViduQ1-text", "viduq1-image",
                "viduq1-start-end", "vidu2-image", "vidu2-start-end", "vidu2-reference",
                "CogVideoX-3", "GLM-4.5V", "Vidu 2" },
      claude |-> { "claude-3-opus-20240229", "claude-3-sonnet-20240229",
                   "claude-3-haiku-20240307", "claude-sonnet-4-20250514",
                   "claude-opus-4-1-20250805", "claude-opus-4-20250214",
                   "claude-3-7-sonnet-20250219", "claude-3-5-sonnet-20241022",
                   "claude-3-5-haiku-20241022" },
      gemini |-> { "gemini-1.5-pro-latest", "gemini-1.5-flash-latest",
                   "gemini-1.0-pro-latest", "gemini-2.5-flash", "gemini-2.5-pro" },
      openai |-> { "gpt-4-turbo", "gpt-4", "gpt-3.5-turbo", "gpt-4o", "gpt-4o-mini",
                   "gpt-o3-2025-04-16", "gpt-5-2025-08-07" },
      qwen |-> { "Qwen3-Coder", "Qwen3-235B-A22B", "Qwen3-30B-A3B", "Qwen2.5-Max",
                 "Qwen3-Coder-Flash", "Qwen2.5-Plus", "Qwen2.5-Turbo", "QVQ-Max",
                 "Qwen2.5-Omni-7B", "qwen-turbo", "qwen-plus", "qwen-max",
                 "qwen-max-longcontext" } ]

\* The keys of the PROVIDERS class table.
PROVIDERS == {"zai", "claude", "gemini", "openai", "qwen"}

\* Endpoint templates: literal text and str.format placeholders.
Lit(s) == [ph |-> FALSE, s |-> s]
Ph(name) == [ph |-> TRUE, s |-> name]

DefaultEndpoint(p) ==
    CASE p = "zai" -> <<Lit("https://open.bigmodel.cn/api/paas/v4/chat/completions")>>
      [] p = "claude" -> <<Lit("https://api.anthropic.com/v1/messages")>>
      [] p = "gemini" ->
            <<Lit("https://generativelanguage.googleapis.com/v1beta/models/"),
              Ph("model"), Lit(":streamGenerateContent?key="), Ph("api_key")>>
      [] p = "openai" -> <<Lit("https://api.openai.com/v1/chat/completions")>>
      [] p = "qwen" ->
            <<Lit("https://dashscope.aliyuncs.com/api/v1/services/aigc/text-generation/generation")>>

DefaultModel(p) ==
    CASE p = "zai" -> "GLM-4-Plus"
      [] p = "claude" -> "claude-3-opus-20240229"
      [] p = "gemini" -> "gemini-1.5-pro-latest"
      [] p = "openai" -> "gpt-4-turbo"
      [] p = "qwen" -> "Qwen3-Coder"

-----------------------------------------------------------------------------
(* Configuration values.  A provider entry is a dict; `has` is the set of   *)
(* keys it really holds (a key outside `has` is absent, its value a dummy). *)

EntryKeys == {"api_key", "model", "endpoint"}

Entry(k, m, e) == [has |-> EntryKeys, api_key |-> k, model |-> m, endpoint |-> e]

\* A configuration dict.  kind: "empty" is {}, "old" has no "providers" key,
\* "current" has one.  api_key/model are the old format's top-level keys.
Config(kind, hasCur, cur, provs, k, m) ==
    [kind |-> kind, has_current |-> hasCur, current_provider |-> cur,
     providers |-> provs, api_key |-> k, model |-> m]

NoProviders == [p \in {} |-> Entry("", "", <<>>)]

EmptyConfig == Config("empty", FALSE, "", NoProviders, "", "")

\* The configuration file: missing, unparsable, or holding a dict.
MissingFile == Config("missing", FALSE, "", NoProviders, "", "")
CorruptFile == Config("corrupt", FALSE, "", NoProviders, "", "")

\* The dict load_config builds for a fresh install.
DefaultConfig ==
    Config("current", TRUE, "zai",
           [p \in PROVIDERS |-> Entry("", DefaultModel(p), DefaultEndpoint(p))], "", "")

\* A lookup that ignores the persisted selection.
CurrentProviderIgnored(config, default) == default

\* config.get("current_provider", "zai")
CurrentProviderOr(config, default) ==
    IF config.kind \in {"old", "current"} /\ config.has_current
    THEN config.current_provider ELSE default

-----------------------------------------------------------------------------
(* utils.py: load_config / save_config *)

\* json.dump of a dict, as load_config will read it back: {} is a dict without a
\* "providers" key, whose api_key/model default to "" and "GLM-4-Plus".
FileOf(config) ==
    IF config.kind = "empty"
    THEN Config("old", FALSE, "", NoProviders, "", "GLM-4-Plus")
    ELSE config

\* The ways the write in save_config can go: it succeeds; open(path, 'w')
\* raises and nothing is written; or open has truncated the file and json.dump
\* (or the flush on close) raises, leaving a file json.load cannot parse.
DiskResults == {"ok", "open_fails", "write_fails"}

\* save_config(config): `with open(config_path, 'w') as f: json.dump(...)` in a
\* try; any exception is printed and False is returned.
save_config(file, config, disk) ==
    IF disk = "ok"
    THEN [file |-> FileOf(config), ok |-> TRUE, console |-> <<>>]
    ELSE [file |-> IF disk = "open_fails" THEN file ELSE CorruptFile,
          ok |-> FALSE, console |-> << <<"Error saving configuration: ", "OSError">> >>]

\* The old-format conversion of load_config: the old top-level api_key and model
\* become the zai entry, current_provider is set to "zai", the other four
\* providers are added with empty keys.
MigrateOld(config) ==
    Config("current", TRUE, "zai",
           [p \in PROVIDERS |->
               IF p = "zai"
               THEN Entry(config.api_key, config.model, DefaultEndpoint("zai"))
               ELSE Entry("", DefaultModel(p), DefaultEndpoint(p))],
           config.api_key, config.model)

\* A load_config that rewrites the file on every load (it normalises the dict it
\* read and saves it): the bug the frame claim on call_api excludes.
load_config_rewriting(file, disk) ==
    IF file.kind = "missing"
    THEN LET sv == save_config(file, DefaultConfig, disk)
         IN [config |-> DefaultConfig, file |-> sv.file, console |-> sv.console]
    ELSE IF file.kind = "corrupt"
    THEN [config |-> EmptyConfig, file |-> file,
          console |-> << <<"Error loading configuration: ", "JSONDecodeError">> >>]
    ELSE LET norm == IF file.kind = "old" THEN MigrateOld(file)
                     ELSE [file EXCEPT !.has_current = TRUE, !.current_provider = "zai"]
             sv == save_config(file, norm, disk)
         IN [config |-> norm, file |-> sv.file, console |-> sv.console]

\* load_config(): returns the dict, and what it did to the file and the console.
load_config(file, disk) ==
    IF file.kind = "missing"
    THEN \* create the default config and save it
         LET sv == save_config(file, DefaultConfig, disk)
         IN [config |-> DefaultConfig, file |-> sv.file, console |-> sv.console]
    ELSE IF file.kind = "corrupt"
    THEN \* except Exception: print, return {}
         [config |-> EmptyConfig, file |-> file,
          console |-> << <<"Error loading configuration: ", "JSONDecodeError">> >>]
    ELSE IF file.kind = "old"
    THEN \* "providers" not in config: convert and save
         LET mig == MigrateOld(file)
             sv == save_config(file, mig, disk)
         IN [config |-> mig, file |-> sv.file, console |-> sv.console]
    ELSE [config |-> file, file |-> file, console |-> <<>>]

-----------------------------------------------------------------------------
(* providers.py: request formatting *)

\* str.format(model=..., api_key=...) on the endpoint template: a placeholder
\* with another name raises KeyError.
FormatOk(template) ==
    \A i \in 1..Len(template) : template[i].ph => template[i].s \in {"model", "api_key"}

\* An endpoint used as stored, its placeholders left in place.
FormatLiteral(template, model, api_key) ==
    [i \in 1..Len(template) |-> template[i].s]

Format(template, model, api_key) ==
    [i \in 1..Len(template) |->
        IF ~template[i].ph THEN template[i].s
        ELSE IF template[i].s = "model" THEN model ELSE api_key]

\* prepare_headers of the five provider classes.
prepare_headers(p, api_key) ==
    CASE p \in {"zai", "openai", "qwen"} ->
            [Authorization |-> <<"Bearer ", api_key>>, ContentType |-> <<"application/json">>]
      [] p = "claude" ->
            [xApiKey |-> <<api_key>>, ContentType |-> <<"application/json">>,
             anthropicVersion |-> <<"2023-06-01">>]
      [] p = "gemini" -> [ContentType |-> <<"application/json">>]

\* A message of the conversation: {"role": ..., "content": ...}.
Message(role, content) == [role |-> role, content |-> content]

\* prepare_body of the five provider classes (the same in both copies of
\* providers.py).  zai, openai and qwen pass the list on as it is.
ZhipuPrepareBody(model, msgs) ==
    [model |-> model, messages |-> msgs, stream |-> TRUE]

AnthropicPrepareBody(model, msgs) ==
    [model |-> model, max_tokens |-> 4096,
     messages |-> [i \in 1..Len(msgs) |->
                      [role |-> msgs[i].role, content |-> msgs[i].content]],
     stream |-> TRUE]

\* A formatting that leaves system messages out of the contents.
GoogleContentsWithoutSystem(msgs) ==
    LET kept == SelectSeq(msgs, LAMBDA msg : msg.role # "system")
    IN  [i \in 1..Len(kept) |->
            [role |-> IF kept[i].role = "user" THEN "user" ELSE "model",
             parts |-> << [text |-> kept[i].content] >>]]

\* for msg in messages: role = "user" if msg["role"] == "user" else "model";
\*     formatted_messages.append({"role": role, "parts": [{"text": msg["content"]}]})
GoogleContents(msgs) ==
    [i \in 1..Len(msgs) |->
        [role |-> IF msgs[i].role = "user" THEN "user" ELSE "model",
         parts |-> << [text |-> msgs[i].content] >>]]

GooglePrepareBody(model, msgs) ==
    [contents |-> GoogleContents(msgs),
     generationConfig |-> [temperature |-> "0.7", topK |-> 40, topP |-> "0.95",
                           maxOutputTokens |-> 8192]]

OpenAIPrepareBody(model, msgs) ==
    [model |-> model, messages |-> msgs, stream |-> TRUE]

QwenPrepareBody(model, msgs) ==
    [model |-> model, input |-> [messages |-> msgs], parameters |-> [stream |-> TRUE]]

prepare_body(p, model, msgs) ==
    CASE p = "zai" -> ZhipuPrepareBody(model, msgs)
      [] p = "claude" -> AnthropicPrepareBody(model, msgs)
      [] p = "gemini" -> GooglePrepareBody(model, msgs)
      [] p = "openai" -> OpenAIPrepareBody(model, msgs)
      [] p = "qwen" -> QwenPrepareBody(model, msgs)

\* The outcomes of requests.post(...) followed by raise_for_status().
NetOutcomes == {"ok", "http_error", "conn_error", "read_timeout"}

\* str(e) of the RequestException the transport raised.  requests puts the
\* request URL in the text of an HTTPError ("... for url: <url>") and of a
\* connection error ("Max retries exceeded with url: <path?query>"); a read
\* timeout names only host and port.
CauseText(net, url) ==
    CASE net = "http_error" -> <<"403 Client Error: Forbidden for url: ">> \o url
      [] net = "conn_error" ->
            <<"HTTPSConnectionPool(host, port=443): Max retries exceeded with url: ">> \o url
      [] net = "read_timeout" -> <<"HTTPSConnectionPool(host, port=443): Read timed out.">>
      [] OTHER -> <<>>

-----------------------------------------------------------------------------
(* call_api (providers.py 262-310, identical in osram_cli.py 300-346) *)

\* What an operation did: how it ended, the POSTs it issued, what it printed,
\* the file it left, and the configuration / provider / entry it resolved.
\* `response` is the body handed to parse_stream when a stream is returned,
\* `fragments` the chunks the caller has pulled from that stream.
Result(outcome, exc, posts, console, file, config, provider, entry) ==
    [outcome |-> outcome, exc |-> exc, posts |-> posts, console |-> console,
     file |-> file, config |-> config, provider |-> provider, entry |-> entry,
     response |-> <<>>, fragments |-> <<>>]

NoEntry == [has |-> {}, api_key |-> "", model |-> "", endpoint |-> <<>>]

\* A membership test against the class table instead of the loaded configuration.
ProviderImplementedOrConfigured(config, provider_name) ==
    provider_name \in DOMAIN config.providers \/ provider_name \in PROVIDERS

\* `provider_name not in config["providers"]`, negated.
ProviderConfigured(config, provider_name) ==
    provider_name \in DOMAIN config.providers

\* A transport step that tries once more after a failure.
TransportRetrying(req, net) ==
    [ok |-> net = "ok", posts |-> IF net = "ok" THEN <<req>> ELSE <<req, req>>]

\* try: requests.post(...); raise_for_status() / except RequestException.
\* One request is sent, whatever its outcome.
Transport(req, net) ==
    [ok |-> net = "ok", posts |-> <<req>>]

\* A call_api that saves the configuration after applying the override.
FileAfterOverrideSaved(file, config, provider_name, model_arg) ==
    IF ~Falsy(model_arg) /\ config.kind = "current"
          /\ provider_name \in DOMAIN config.providers
    THEN [config EXCEPT !.providers[provider_name].model = model_arg,
                        !.providers[provider_name].has = @ \cup {"model"}]
    ELSE file

\* provider_config = config["providers"][provider_name].copy()
\* if model_name: provider_config["model"] = model_name
\* The override goes into the copy; call_api has no save_config call, so the
\* file stays as load_config left it.
FileAfterOverride(file, config, provider_name, model_arg) == file

\* `response` is the body the server sends when the POST succeeds; the
\* generator parse_stream(response) is returned without a line being read.
call_api(file, provider_arg, model_arg, net, disk, response) ==
    LET ld == load_config(file, disk)
        config == ld.config
        provider_name == IF Falsy(provider_arg) THEN CurrentProviderOr(config, "zai")
                         ELSE provider_arg
        R(outcome, exc, posts, printed, entry) ==
            Result(outcome, exc, posts, ld.console \o printed,
                   FileAfterOverride(ld.file, config, provider_name, model_arg), config,
                   provider_name, entry)
    IN  IF config.kind = "empty"
        THEN \* config["providers"] on {}
             R("raise", "KeyError", <<>>, <<>>, NoEntry)
        ELSE IF ~ProviderConfigured(config, provider_name)
        THEN R("None", "", <<>>,
               << <<"Provider '", provider_name, "' not configured">> >>, NoEntry)
        ELSE IF provider_name \notin DOMAIN config.providers
        THEN \* config["providers"][provider_name]
             R("raise", "KeyError", <<>>, <<>>, NoEntry)
        ELSE
        LET base == config.providers[provider_name]
            provider_config ==
                IF Falsy(model_arg) THEN base
                ELSE [base EXCEPT !.model = model_arg, !.has = @ \cup {"model"}]
        IN  IF provider_name \notin PROVIDERS
            THEN R("None", "", <<>>,
                   << <<"Provider '", provider_name, "' not implemented">> >>,
                   provider_config)
            ELSE IF provider_config.has # EntryKeys
            THEN \* BaseProvider.__init__: config["api_key"] / ["model"] / ["endpoint"]
                 R("raise", "KeyError", <<>>, <<>>, provider_config)
            ELSE IF ~FormatOk(provider_config.endpoint)
            THEN R("raise", "KeyError", <<>>, <<>>, provider_config)
            ELSE
            LET endpoint == Format(provider_config.endpoint, provider_config.model,
                                   provider_config.api_key)
                req == [endpoint |-> endpoint,
                        headers |-> prepare_headers(provider_name, provider_config.api_key)]
                tr == Transport(req, net)
            IN  IF tr.ok
                THEN [R("stream", "", tr.posts, <<>>, provider_config)
                         EXCEPT !.response = response]
                ELSE R("None", "", tr.posts,
                       << <<"API Error: ">> \o CauseText(net, endpoint) >>,
                       provider_config)

-----------------------------------------------------------------------------
(* switch_provider (osram_cli.py 253-280) *)

switch_provider(file, provider_arg, model_arg, disk) ==
    LET ld == load_config(file, disk)
        config == ld.config
        R(outcome, exc, printed, f, c) ==
            Result(outcome, exc, <<>>, ld.console \o printed, f, c, provider_arg, NoEntry)
    IN  IF ~Falsy(provider_arg) /\ config.kind = "empty"
        THEN R("raise", "KeyError", <<>>, ld.file, config)
        ELSE IF ~Falsy(provider_arg) /\ provider_arg \notin DOMAIN config.providers
        THEN R("False", "", << <<"Provider '", provider_arg, "' not configured">> >>,
               ld.file, config)
        ELSE
        LET c1 == IF Falsy(provider_arg) THEN config
                  ELSE [config EXCEPT !.has_current = TRUE, !.current_provider = provider_arg]
            msg1 == IF Falsy(provider_arg) THEN <<>>
                    ELSE << <<"Switched to provider: ", provider_arg>> >>
            current_provider == CurrentProviderOr(c1, "zai")
        IN  IF Falsy(model_arg)
            THEN LET sv == save_config(ld.file, c1, disk)
                 IN R(IF sv.ok THEN "True" ELSE "False", "", msg1 \o sv.console, sv.file, c1)
            ELSE IF c1.kind = "empty"
            THEN R("raise", "KeyError", msg1, ld.file, c1)
            ELSE IF current_provider \notin DOMAIN c1.providers
            THEN R("False", "",
                   msg1 \o << <<"Current provider '", current_provider, "' not configured">> >>,
                   ld.file, c1)
            ELSE IF current_provider \in DOMAIN AVAILABLE_MODELS
                    /\ model_arg \notin AVAILABLE_MODELS[current_provider]
            THEN R("False", "",
                   msg1 \o << <<"Model '", model_arg, "' not available for provider '",
                                current_provider, "'">> >>,
                   ld.file, c1)
            ELSE LET c2 == [c1 EXCEPT !.providers[current_provider].model = model_arg,
                                      !.providers[current_provider].has = @ \cup {"model"}]
                     sv == save_config(ld.file, c2, disk)
                 IN R(IF sv.ok THEN "True" ELSE "False", "",
                      msg1 \o << <<"Switched to model: ", model_arg>> >> \o sv.console,
                      sv.file, c2)

-----------------------------------------------------------------------------
(* Python values a response line decodes to.  Every value is [t, v]: the    *)
(* type tag and the payload.  An exception in flight is [t |-> "exc"].      *)

JObj(f) == [t |-> "obj", v |-> f]
JArr(s) == [t |-> "arr", v |-> s]
JStr(s) == [t |-> "str", v |-> s]
JNull == [t |-> "null", v |-> "null"]
Exc(name) == [t |-> "exc", v |-> name]
IsExc(x) == x.t = "exc"

\* bool(x)
Truthy(x) ==
    CASE x.t = "obj" -> DOMAIN x.v # {}
      [] x.t = "arr" -> Len(x.v) > 0
      [] x.t = "str" -> x.v # ""
      [] OTHER -> FALSE

\* `key in x`: dict key test, list membership; None raises TypeError.  (For a
\* str it is a substring test, here equality: no line below decodes to a str.)
PyIn(key, x) ==
    CASE x.t = "obj" -> IF key \in DOMAIN x.v THEN JStr("True") ELSE JStr("")
      [] x.t = "arr" ->
            IF \E i \in 1..Len(x.v) : x.v[i].t = "str" /\ x.v[i].v = key
            THEN JStr("True") ELSE JStr("")
      [] x.t = "str" -> IF x.v = key THEN JStr("True") ELSE JStr("")
      [] OTHER -> Exc("TypeError")

\* x[key] with a str key
PySub(x, key) ==
    CASE IsExc(x) -> x
      [] x.t = "obj" -> IF key \in DOMAIN x.v THEN x.v[key] ELSE Exc("KeyError")
      [] OTHER -> Exc("TypeError")

\* x[0]
PyFirst(x) ==
    CASE IsExc(x) -> x
      [] x.t = "arr" -> IF Len(x.v) > 0 THEN x.v[1] ELSE Exc("IndexError")
      [] x.t = "str" -> IF x.v # "" THEN JStr("c") ELSE Exc("IndexError")
      [] x.t = "obj" -> Exc("KeyError")
      [] OTHER -> Exc("TypeError")

\* x.get(key, default): only a dict has .get
PyGet(x, key, default) ==
    CASE IsExc(x) -> x
      [] x.t = "obj" -> IF key \in DOMAIN x.v THEN x.v[key] ELSE default
      [] OTHER -> Exc("AttributeError")

EmptyDict == JObj([k \in {} |-> JNull])

-----------------------------------------------------------------------------
(* Response lines, as response.iter_lines() delivers them: the bytes of a   *)
(* line are prefix + payload; the payload is a JSON document, the [DONE]   *)
(* marker, text that is not JSON, or nothing; utf8 is whether the bytes     *)
(* decode as UTF-8.                                                         *)

Line(utf8, prefix, k, j) == [utf8 |-> utf8, prefix |-> prefix, k |-> k, j |-> j]

Delta(field, text) == [k \in {field} |-> JStr(text)]

ZaiChunk(delta) ==
    JObj([choices |-> JArr(<< JObj([index |-> JStr("0"), delta |-> delta]) >>)])

ClaudeDelta(text) ==
    JObj([type |-> JStr("content_block_delta"),
          delta |-> JObj([type |-> JStr("text_delta"), text |-> JStr(text)])])

GeminiChunk(parts) ==
    JObj([candidates |-> JArr(<< JObj([content |-> JObj([parts |-> JArr(parts)])]) >>)])

QwenChunk(choices) == JObj([output |-> JObj([choices |-> JArr(choices)])])

QwenChoice(text) == JObj([message |-> JObj([content |-> JStr(text)])])

LineOf(id) ==
    CASE id = "blank" -> Line(TRUE, "", "empty", JNull)
      [] id = "bad_utf8" -> Line(FALSE, "data: ", "garbage", JNull)
      [] id = "done" -> Line(TRUE, "data: ", "done", JNull)
      [] id = "data_empty" -> Line(TRUE, "data: ", "empty", JNull)
      [] id = "bad_json" -> Line(TRUE, "data: ", "garbage", JNull)
      [] id = "event" -> Line(TRUE, "event: ", "garbage", JNull)
      [] id = "data_null" -> Line(TRUE, "data: ", "json", JNull)
      [] id = "null" -> Line(TRUE, "", "json", JNull)
      [] id = "zai_Hel" -> Line(TRUE, "data: ", "json", ZaiChunk(JObj(Delta("content", "Hel"))))
      [] id = "zai_lo" -> Line(TRUE, "data: ", "json", ZaiChunk(JObj(Delta("content", "lo"))))
      [] id = "zai_role" -> Line(TRUE, "data: ", "json", ZaiChunk(JObj(Delta("role", "assistant"))))
      [] id = "zai_delta_null" -> Line(TRUE, "data: ", "json", ZaiChunk(JNull))
      [] id = "zai_bare" -> Line(TRUE, "", "json", ZaiChunk(JObj(Delta("content", "Hel"))))
      [] id = "zai_nospace" -> Line(TRUE, "data:", "json", ZaiChunk(JObj(Delta("content", "Hel"))))
      [] id = "zai_parts" ->
            Line(TRUE, "data: ", "json", ZaiChunk(JObj([content |-> JArr(<< JStr("Hel") >>)])))
      [] id = "cl_Hel" -> Line(TRUE, "data: ", "json", ClaudeDelta("Hel"))
      [] id = "cl_lo" -> Line(TRUE, "data: ", "json", ClaudeDelta("lo"))
      [] id = "cl_start" -> Line(TRUE, "data: ", "json", JObj([type |-> JStr("message_start")]))
      [] id = "cl_nospace" -> Line(TRUE, "data:", "json", ClaudeDelta("Hel"))
      [] id = "cl_empty" -> Line(TRUE, "data: ", "json", ClaudeDelta(""))
      [] id = "cl_other" ->
            Line(TRUE, "data: ", "json",
                 JObj([type |-> JStr("message_delta"), delta |-> JObj(Delta("text", "Hel"))]))
      [] id = "ge_Hel" -> Line(TRUE, "", "json", GeminiChunk(<< JObj(Delta("text", "Hel")) >>))
      [] id = "ge_lo" -> Line(TRUE, "", "json", GeminiChunk(<< JObj(Delta("text", "lo")) >>))
      [] id = "ge_noparts" -> Line(TRUE, "", "json", GeminiChunk(<< >>))
      [] id = "qw_Hel" -> Line(TRUE, "", "json", QwenChunk(<< QwenChoice("Hel") >>))
      [] id = "qw_lo" -> Line(TRUE, "", "json", QwenChunk(<< QwenChoice("lo") >>))
      [] id = "qw_nochoices" -> Line(TRUE, "", "json", QwenChunk(<< >>))

\* The lines each decoder is fed: its own wire format, malformed and foreign lines.
LinesFor(prov) ==
    CASE prov \in {"zai", "openai"} ->
            {"blank", "done", "data_empty", "bad_json", "bad_utf8", "event", "data_null",
             "zai_Hel", "zai_lo", "zai_role", "zai_delta_null",
             "zai_bare", "zai_nospace", "zai_parts"}
      [] prov = "claude" ->
            {"blank", "done", "data_empty", "bad_json", "bad_utf8", "event", "data_null",
             "cl_Hel", "cl_lo", "cl_start", "zai_Hel",
             "cl_nospace", "cl_empty", "cl_other"}
      [] prov = "gemini" ->
            {"blank", "event", "bad_utf8", "null", "ge_Hel", "ge_lo", "ge_noparts",
             "zai_Hel", "qw_Hel"}
      [] prov = "qwen" ->
            {"blank", "event", "bad_utf8", "null", "qw_Hel", "qw_lo", "qw_nochoices",
             "zai_Hel", "ge_Hel"}

\* json.loads(text) of the text prefix + payload.
json_loads(prefix, line) ==
    IF prefix = "" /\ line.k = "json" THEN line.j ELSE Exc("JSONDecodeError")

-----------------------------------------------------------------------------
(* parse_stream, one line at a time.  A line yields a fragment, is skipped, *)
(* or raises out of the generator.                                          *)

Skip == [kind |-> "skip", t |-> "", v |-> ""]
Raise(name) == [kind |-> "raise", t |-> "exc", v |-> name]
Yield(content) ==
    [kind |-> "yield", t |-> content.t,
     v |-> IF content.t = "str" THEN content.v ELSE "<non-str>"]

\* `if content: yield content`, with an exception raised on the way propagating.
Emit(content) ==
    IF IsExc(content) THEN Raise(content.v)
    ELSE IF Truthy(content) THEN Yield(content) ELSE Skip

\* A prefix test that also takes "data:" without the space and a bare payload.
StartsWithDataLoosely(line) == line.prefix \in {"data: ", "data:", ""}

\* decoded.startswith("data: ")
StartsWithData(line) == line.prefix = "data: "

\* `if line:` on the bytes of the line
Blank(line) == line.prefix = "" /\ line.k = "empty"

\* if "choices" in data and data["choices"]:
\*     content = data["choices"][0].get("delta", {}).get("content", "")
ChoicesDeltaContent(data) ==
    LET has == PyIn("choices", data)
        choices == PySub(data, "choices")
    IN  IF IsExc(has) THEN Raise(has.v)
        ELSE IF ~Truthy(has) THEN Skip
        ELSE IF IsExc(choices) THEN Raise(choices.v)
        ELSE IF ~Truthy(choices) THEN Skip
        ELSE Emit(PyGet(PyGet(PyFirst(choices), "delta", EmptyDict), "content", JStr("")))

\* if data.get("type") == "content_block_delta":
\*     content = data.get("delta", {}).get("text", "")
BlockDeltaText(data) ==
    LET ty == PyGet(data, "type", JNull)
    IN  IF IsExc(ty) THEN Raise(ty.v)
        ELSE IF ~(ty.t = "str" /\ ty.v = "content_block_delta") THEN Skip
        ELSE Emit(PyGet(PyGet(data, "delta", EmptyDict), "text", JStr("")))

\* if "candidates" in data and data["candidates"]:
\*     content = data["candidates"][0].get("content", {}).get("parts", [{}])[0].get("text", "")
CandidatesPartsText(data) ==
    LET has == PyIn("candidates", data)
        cands == PySub(data, "candidates")
    IN  IF IsExc(has) THEN Raise(has.v)
        ELSE IF ~Truthy(has) THEN Skip
        ELSE IF IsExc(cands) THEN Raise(cands.v)
        ELSE IF ~Truthy(cands) THEN Skip
        ELSE Emit(PyGet(PyFirst(PyGet(PyGet(PyFirst(cands), "content", EmptyDict),
                                      "parts", JArr(<<EmptyDict>>))),
                        "text", JStr("")))

\* if "output" in data and "choices" in data["output"]:
\*     content = data["output"]["choices"][0].get("message", {}).get("content", "")
OutputChoicesContent(data) ==
    LET has == PyIn("output", data)
        output == PySub(data, "output")
        has2 == IF IsExc(output) THEN output ELSE PyIn("choices", output)
    IN  IF IsExc(has) THEN Raise(has.v)
        ELSE IF ~Truthy(has) THEN Skip
        ELSE IF IsExc(has2) THEN Raise(has2.v)
        ELSE IF ~Truthy(has2) THEN Skip
        ELSE Emit(PyGet(PyGet(PyFirst(PySub(output, "choices")), "message", EmptyDict),
                        "content", JStr("")))

\* src/build/lib/osram_cli/providers.py ------------------------------------

ZhipuParseLine(line) ==
    IF Blank(line) THEN Skip
    ELSE IF ~line.utf8 THEN Raise("UnicodeDecodeError")
    ELSE IF ~StartsWithData(line) THEN Skip
    ELSE IF line.k \in {"empty", "done"} THEN Skip          \* continue
    ELSE LET data == json_loads("", line)
         IN IF IsExc(data) THEN Skip                        \* except JSONDecodeError
            ELSE ChoicesDeltaContent(data)

AnthropicParseLine(line) ==
    IF Blank(line) THEN Skip
    ELSE IF ~line.utf8 THEN Raise("UnicodeDecodeError")
    ELSE IF ~StartsWithData(line) THEN Skip
    ELSE LET data == json_loads("", line)
         IN IF IsExc(data) THEN Skip
            ELSE BlockDeltaText(data)

GoogleParseLine(line) ==
    IF Blank(line) THEN Skip
    ELSE IF ~line.utf8 THEN Raise("UnicodeDecodeError")
    ELSE LET data == json_loads(line.prefix, line)
         IN IF IsExc(data) THEN Skip
            ELSE CandidatesPartsText(data)

OpenAIParseLine(line) ==
    IF Blank(line) THEN Skip
    ELSE IF ~line.utf8 THEN Raise("UnicodeDecodeError")
    ELSE IF ~StartsWithData(line) THEN Skip
    ELSE IF line.k \in {"empty", "done"} THEN Skip
    ELSE LET data == json_loads("", line)
         IN IF IsExc(data) THEN Skip
            ELSE ChoicesDeltaContent(data)

QwenParseLine(line) ==
    IF Blank(line) THEN Skip
    ELSE IF ~line.utf8 THEN Raise("UnicodeDecodeError")
    ELSE LET data == json_loads(line.prefix, line)
         IN IF IsExc(data) THEN Skip
            ELSE OutputChoicesContent(data)

\* src/osram_cli/providers.py: zai, claude and openai have no try/except and
\* no [DONE] test ---------------------------------------------------------

SrcZhipuParseLine(line) ==
    IF Blank(line) THEN Skip
    ELSE IF ~line.utf8 THEN Raise("UnicodeDecodeError")
    ELSE IF ~StartsWithData(line) THEN Skip
    ELSE LET data == json_loads("", line)
         IN IF IsExc(data) THEN Raise(data.v)
            ELSE ChoicesDeltaContent(data)

SrcAnthropicParseLine(line) ==
    IF Blank(line) THEN Skip
    ELSE IF ~line.utf8 THEN Raise("UnicodeDecodeError")
    ELSE IF ~StartsWithData(line) THEN Skip
    ELSE LET data == json_loads("", line)
         IN IF IsExc(data) THEN Raise(data.v)
            ELSE BlockDeltaText(data)

SrcGoogleParseLine(line) ==
    IF Blank(line) THEN Skip
    ELSE IF ~line.utf8 THEN Raise("UnicodeDecodeError")
    ELSE LET data == json_loads(line.prefix, line)
         IN IF IsExc(data) THEN Skip
            ELSE CandidatesPartsText(data)

SrcOpenAIParseLine(line) ==
    IF Blank(line) THEN Skip
    ELSE IF ~line.utf8 THEN Raise("UnicodeDecodeError")
    ELSE IF ~StartsWithData(line) THEN Skip
    ELSE LET data == json_loads("", line)
         IN IF IsExc(data) THEN Raise(data.v)
            ELSE ChoicesDeltaContent(data)

SrcQwenParseLine(line) ==
    IF Blank(line) THEN Skip
    ELSE IF ~line.utf8 THEN Raise("UnicodeDecodeError")
    ELSE LET data == json_loads(line.prefix, line)
         IN IF IsExc(data) THEN Skip
            ELSE OutputChoicesContent(data)

\* The body of the `for line in response.iter_lines()` loop of PROVIDERS[prov]
\* in the given copy of providers.py.
ParseLine(copy, prov, line) ==
    IF copy = "build"
    THEN CASE prov = "zai" -> ZhipuParseLine(line)
           [] prov = "claude" -> AnthropicParseLine(line)
           [] prov = "gemini" -> GoogleParseLine(line)
           [] prov = "openai" -> OpenAIParseLine(line)
           [] prov = "qwen" -> QwenParseLine(line)
    ELSE CASE prov = "zai" -> SrcZhipuParseLine(line)
           [] prov = "claude" -> SrcAnthropicParseLine(line)
           [] prov = "gemini" -> SrcGoogleParseLine(line)
           [] prov = "openai" -> SrcOpenAIParseLine(line)
           [] prov = "qwen" -> SrcQwenParseLine(line)

-----------------------------------------------------------------------------
(* chat, single message mode (osram_cli.py 1241-1282) *)

\* The generator run to the end by its caller: the fragments of the first n
\* lines, up to the line that raises (if one does).
RECURSIVE Decode(_, _, _, _)
Decode(copy, prov, ls, n) ==
    IF n = 0 THEN [out |-> <<>>, status |-> "exhausted", exc |-> ""]
    ELSE LET d == Decode(copy, prov, ls, n - 1)
             res == ParseLine(copy, prov, LineOf(ls[n]))
         IN  IF d.status = "raised" THEN d
             ELSE [out |-> IF res.kind = "yield"
                           THEN Append(d.out, [line |-> n, t |-> res.t, v |-> res.v])
                           ELSE d.out,
                   status |-> IF res.kind = "raise" THEN "raised" ELSE "exhausted",
                   exc |-> IF res.kind = "raise" THEN res.v ELSE ""]

\* A test on the fragments instead of the returned object (as if call_api
\* returned a list): an empty reply would be reported as a failure.
StreamTruthyWhenNonEmpty(r) ==
    /\ r.outcome # "None"
    /\ Decode("build", r.provider, r.response, Len(r.response)).out # <<>>

\* `if response_stream:` on what call_api returned: a generator object is
\* truthy whatever it will yield, None is not.
StreamTruthy(r) == r.outcome # "None"

\* for chunk in response_stream: console.print(chunk, end=""); response_text += chunk
\* The chunks pulled and printed, and how the loop ended (`+=` of a chunk that is
\* not a str raises TypeError after the chunk was printed).
PrintChunks(d) ==
    LET bad == {i \in 1..Len(d.out) : d.out[i].t # "str"}
        k == IF bad = {} THEN Len(d.out)
             ELSE CHOOSE i \in bad : \A j \in bad : i <= j
    IN  [fragments |-> SubSeq(d.out, 1, k),
         console |-> [i \in 1..k |-> <<d.out[i].v>>],
         exc |-> IF bad # {} THEN "TypeError" ELSE d.exc]

\* response_stream = call_api(...); if response_stream: print the chunks, then
\* a newline; else: print "Failed to get response from AI"
ChatReply(printed, inner) ==
    IF inner.outcome = "raise"
    THEN [inner EXCEPT !.console = printed \o @]
    ELSE IF ~StreamTruthy(inner)
    THEN [inner EXCEPT
            !.console = printed \o @ \o << <<"Failed to get response from AI">> >>]
    ELSE LET pc == PrintChunks(Decode("build", inner.provider, inner.response,
                                      Len(inner.response)))
         IN  [inner EXCEPT
                !.fragments = pc.fragments,
                !.outcome = IF pc.exc = "" THEN "stream" ELSE "raise",
                !.exc = pc.exc,
                !.console = printed \o @ \o pc.console
                              \o (IF pc.exc = "" THEN << <<"">> >> ELSE <<>>)]

chat(file, provider_arg, model_arg, net, disk, response) ==
    LET ld == load_config(file, disk)
        config == ld.config
        provider == IF Falsy(provider_arg) THEN CurrentProviderOr(config, "zai")
                    ELSE provider_arg
        R(outcome, exc, printed, entry) ==
            Result(outcome, exc, <<>>, ld.console \o printed, ld.file, config, provider, entry)
    IN  IF config.kind = "empty"
        THEN R("raise", "KeyError", <<>>, NoEntry)
        ELSE IF provider \notin DOMAIN config.providers
        THEN R("return", "", << <<"Provider '", provider, "' not configured">> >>, NoEntry)
        ELSE
        LET provider_config == config.providers[provider]
        IN  IF "api_key" \notin provider_config.has \/ provider_config.api_key = ""
            THEN R("return", "",
                   << <<"API key not configured for provider '", provider, "'">> >>,
                   provider_config)
            ELSE
            LET model == IF ~Falsy(model_arg) THEN model_arg
                         ELSE IF "model" \in provider_config.has THEN provider_config.model
                         ELSE None
            IN  ChatReply(ld.console \o << <<"You: ", "message">>, <<"AI: ">> >>,
                          call_api(ld.file, provider, model, net, disk, response))

-----------------------------------------------------------------------------
(* The dispatcher as a state machine: the configuration file and the       *)
(* operation that ran last.                                                 *)

SecretKey ==
    [zai |-> "sk-zai", claude |-> "sk-claude", gemini |-> "sk-gemini",
     openai |-> "sk-openai", qwen |-> "sk-qwen", other |-> "sk-other"]

\* Configuration files a user can have before the program runs: none, an
\* unparsable one, old-format ones, and current-format ones (some hand-edited).
KeyedProviders(keyed) ==
    [p \in PROVIDERS |->
        Entry(IF p \in keyed THEN SecretKey[p] ELSE "", DefaultModel(p), DefaultEndpoint(p))]

EditedProviders ==
    [p \in {"zai", "claude", "gemini", "other"} |->
        CASE p = "zai" ->
                Entry(SecretKey[p], DefaultModel(p),
                      <<Lit("https://"), Ph("region"), Lit(".bigmodel.cn/chat")>>)
          [] p = "claude" ->
                [has |-> {"model", "endpoint"}, api_key |-> "",
                 model |-> DefaultModel(p), endpoint |-> DefaultEndpoint(p)]
          [] p = "gemini" -> Entry(SecretKey[p], "gemini-legacy", DefaultEndpoint(p))
          [] p = "other" -> Entry(SecretKey[p], "other-1", <<Lit("https://other.example/v1")>>)]

InitialFiles ==
    { MissingFile, CorruptFile,
      Config("old", FALSE, "", NoProviders, "", "GLM-4-Plus"),
      Config("old", TRUE, "claude", NoProviders, "sk-old", "glm-legacy"),
      Config("current", TRUE, "zai", KeyedProviders(PROVIDERS), "", ""),
      Config("current", TRUE, "gemini", KeyedProviders({"gemini", "openai"}), "", ""),
      Config("current", FALSE, "", EditedProviders, "", ""),
      Config("current", TRUE, "qwen", EditedProviders, "", "") }

\* Arguments the operations are called with.
ProviderArgs == {None, "zai", "claude", "gemini", "qwen", "other"}
ModelArgs == {None, "GLM-4.5", "gemini-2.5-pro", "bogus-model"}
ChatProviderArgs == {None, "gemini", "claude"}
ChatModelArgs == {None, "bogus-model"}
SwitchProviderArgs == {None, "gemini", "qwen"}
SwitchModelArgs == {None, "gemini-2.5-pro", "bogus-model"}

\* The bodies a server answers a successful POST with (a failed POST has none).
Replies ==
    { <<>>, <<"blank", "done">>, <<"zai_Hel", "zai_lo", "done">>, <<"data_null", "zai_Hel">>,
      <<"ge_Hel", "ge_lo">>, <<"cl_start", "cl_Hel">> }

RepliesTo(net) == IF net = "ok" THEN Replies ELSE {<<>>}

\* Whether the disk accepts a write; it matters to a load only when the load
\* writes (file missing or old format).
DiskOutcomes(file) == IF file.kind \in {"missing", "old"} THEN DiskResults ELSE {"ok"}

Op(op, provider_arg, model_arg, net, before, r) ==
    [op |-> op, provider_arg |-> provider_arg, model_arg |-> model_arg, net |-> net,
     before |-> before, r |-> r]

NoResult == Result("", "", <<>>, <<>>, MissingFile, EmptyConfig, "", NoEntry)

DecoderIdle ==
    /\ dprov = "zai" /\ dcopy = "build" /\ lines = <<>>
    /\ pos = 0 /\ out = <<>> /\ dstatus = "exhausted"
    /\ pulling = FALSE

\* No request body has been prepared.
NoBody == [prov |-> None, json |-> [messages |-> <<>>]]

BodyIdle ==
    /\ messages = <<>>
    /\ body = NoBody

\* The two invocations the isolation property is about.
CallIds == {1, 2}

NotStarted == [prov |-> None, lines |-> <<>>, pos |-> 0, out |-> <<>>, status |-> "idle"]

ConcurrentIdle == calls = [c \in CallIds |-> NotStarted]

\* No interactive chat session has been started.
NoCall == [made |-> FALSE, provider |-> None, model |-> None, sent |-> <<>>]

NoSession ==
    [status |-> "none", provider |-> None, model |-> None, messages |-> <<>>,
     turns |-> 0, call |-> NoCall]

SessionIdle == session = NoSession

\* The trash directory is empty and nothing has been deleted.
TrashIdle ==
    /\ trash = << >>
    /\ trashed = <<>>

\* No operation is running and none is recorded.
Idle == Op("idle", None, None, "ok", MissingFile, NoResult)

Init ==
    /\ cfgFile \in InitialFiles
    /\ last = Idle
    /\ DecoderIdle
    /\ BodyIdle
    /\ ConcurrentIdle
    /\ SessionIdle
    /\ TrashIdle

\* call_api runs from a fresh command or right after a switch_provider; a
\* call_api without model override also runs right after one that was given a
\* model override.
CallApi ==
    /\ \E provider_arg \in ProviderArgs, model_arg \in ModelArgs,
          net \in NetOutcomes, disk \in DiskOutcomes(cfgFile) :
         /\ \/ last = Idle
            \/ last.op = "switch_provider"
            \/ last.op = "call_api" /\ last.model_arg # None /\ model_arg = None
         /\ \E response \in RepliesTo(net) :
              \E r \in {call_api(cfgFile, provider_arg, model_arg, net, disk, response)} :
                  /\ cfgFile' = r.file
                  /\ last' = Op("call_api", provider_arg, model_arg, net, cfgFile, r)
                  /\ UNCHANGED <<decVars, bodyVars, conVars, chatVars, fsVars>>

SwitchProvider ==
    /\ last = Idle
    /\ \E provider_arg \in SwitchProviderArgs, model_arg \in SwitchModelArgs,
          disk \in DiskResults :
         \E r \in {switch_provider(cfgFile, provider_arg, model_arg, disk)} :
             /\ cfgFile' = r.file
             /\ last' = Op("switch_provider", provider_arg, model_arg, "ok", cfgFile, r)
             /\ UNCHANGED <<decVars, bodyVars, conVars, chatVars, fsVars>>

Chat ==
    /\ last = Idle
    /\ \E provider_arg \in ChatProviderArgs, model_arg \in ChatModelArgs,
          net \in NetOutcomes, disk \in DiskOutcomes(cfgFile) :
         \E response \in RepliesTo(net) :
         \E r \in {chat(cfgFile, provider_arg, model_arg, net, disk, response)} :
             /\ cfgFile' = r.file
             /\ last' = Op("chat", provider_arg, model_arg, net, cfgFile, r)
             /\ UNCHANGED <<decVars, bodyVars, conVars, chatVars, fsVars>>

\* The operation has returned to its caller (the command's process has ended):
\* only the configuration file remains.
Return ==
    /\ last # Idle
    /\ last' = Idle
    /\ UNCHANGED cfgFile
    /\ UNCHANGED <<decVars, bodyVars, conVars, chatVars, fsVars>>

Next == CallApi \/ SwitchProvider \/ Chat \/ Return

Spec == Init /\ [][Next]_vars

-----------------------------------------------------------------------------
(* Properties of the dispatcher *)

Tokens(text) == {text[i] : i \in 1..Len(text)}

\* The provider id a dispatch resolves: the override, else the loaded
\* configuration's current_provider (default "zai").
ResolvedProvider ==
    IF last.provider_arg \in {None, ""}
    THEN (IF last.r.config.has_current THEN last.r.config.current_provider ELSE "zai")
    ELSE last.provider_arg

Dispatched == last.op \in {"call_api", "chat"}
LoadedProviders == DOMAIN last.r.config.providers
Configured == last.r.config.kind = "current" /\ ResolvedProvider \in LoadedProviders
Persisted == last.r.config.providers[ResolvedProvider]
ResolvedModel == IF last.model_arg \in {None, ""} THEN Persisted.model ELSE last.model_arg
NoNetwork == last.r.posts = <<>>

\* C1: a dispatch issues the POST only if the resolved provider configuration has
\* a non-empty api_key and a model listed in AVAILABLE_MODELS for that provider
\* (when the provider is listed there).
C1_PostOnlyWithKeyAndListedModel ==
    (Dispatched /\ ~NoNetwork) =>
        /\ Configured
        /\ Persisted.api_key # ""
        /\ ResolvedProvider \in DOMAIN AVAILABLE_MODELS
              => ResolvedModel \in AVAILABLE_MODELS[ResolvedProvider]

\* C2: call_api with a provider id (override, or the persisted current_provider)
\* that is not a key of config["providers"] returns the failure outcome (None)
\* and performs no network call.
C2_AbsentProviderFailsWithoutNetwork ==
    (last.op = "call_api" /\ last.r.config.kind = "current"
        /\ ResolvedProvider \notin LoadedProviders)
    => (last.r.outcome = "None" /\ NoNetwork)

\* C2 witness: a call without override whose persisted current_provider is not
\* configured has returned None.
C2_Witness ==
    /\ last.op = "call_api" /\ last.r.config.kind = "current"
    /\ last.provider_arg = None
    /\ ResolvedProvider \notin LoadedProviders
    /\ last.r.outcome = "None"

\* C3: call_api for a configured provider whose api_key is the empty string
\* returns the failure outcome without a network call.
C3_EmptyKeyFailsWithoutNetwork ==
    (last.op = "call_api" /\ Configured /\ "api_key" \in Persisted.has
        /\ Persisted.api_key = "")
    => (last.r.outcome = "None" /\ NoNetwork)

\* C4: a dispatch with a model override that is not in AVAILABLE_MODELS for the
\* resolved provider fails without a network call, from call_api directly and
\* from chat --model.
C4_UnlistedModelOverrideFailsWithoutNetwork ==
    (Dispatched /\ Configured /\ last.model_arg \notin {None, ""}
        /\ ResolvedProvider \in DOMAIN AVAILABLE_MODELS
        /\ last.model_arg \notin AVAILABLE_MODELS[ResolvedProvider])
    => (last.r.outcome \in {"None", "return"} /\ NoNetwork)

\* C5: no configured provider's (non-empty) api_key appears in anything the
\* dispatch printed.
C5_ApiKeyNeverPrinted ==
    Dispatched =>
        \A i \in 1..Len(last.r.console) : \A p \in LoadedProviders :
            last.r.config.providers[p].api_key # ""
                => last.r.config.providers[p].api_key \notin Tokens(last.r.console[i])

C7_AtMostOnePostNoRetry ==
    Dispatched =>
        /\ Len(last.r.posts) <= 1
        /\ (last.net # "ok" /\ ~NoNetwork) =>
              /\ last.r.outcome = "None"
              /\ \E i \in 1..Len(last.r.console) :
                    /\ last.r.console[i][1] = "API Error: "
                    /\ Len(last.r.console[i]) > 1

\* C7 witness: a call_api whose POST met a connection error.
C7_Witness ==
    /\ last.op = "call_api" /\ last.net = "conn_error"
    /\ Len(last.r.posts) = 1 /\ last.r.outcome = "None"

\* C13: call_api never raises to its caller: for every configuration state it
\* returns a fragment sequence or the failure outcome (None).
C13_CallApiNeverRaises ==
    last.op = "call_api" => last.r.outcome \in {"stream", "None"}

\* C19: the endpoint of the POST is the provider's endpoint template with
\* {model} replaced by the resolved model (the override, else the persisted
\* model) and {api_key} by the provider's api_key; a template without
\* placeholders is used unchanged.
C19_EndpointIsTemplateSubstituted ==
    (Dispatched /\ ~NoNetwork) =>
        LET template == Persisted.endpoint
            endpoint == last.r.posts[1].endpoint
        IN  /\ Len(endpoint) = Len(template)
            /\ \A i \in 1..Len(template) :
                  /\ ~template[i].ph => endpoint[i] = template[i].s
                  /\ (template[i].ph /\ template[i].s = "model") =>
                        endpoint[i] = ResolvedModel
                  /\ (template[i].ph /\ template[i].s = "api_key") =>
                        endpoint[i] = Persisted.api_key

\* C19 witness: a gemini POST with a model override went to the URL that names
\* the override and carries the key.
C19_Witness ==
    /\ last.op = "call_api" /\ ~NoNetwork
    /\ last.model_arg = "gemini-2.5-pro"
    /\ Len(last.r.posts[1].endpoint) = 4
    /\ last.r.posts[1].endpoint[2] = "gemini-2.5-pro"
    /\ last.r.posts[1].endpoint[4] = "sk-gemini"

\* A call_api without overrides that got as far as the provider entry.
PlainCall(op) ==
    /\ op.op = "call_api"
    /\ op.provider_arg = None /\ op.model_arg = None
    /\ op.r.entry # NoEntry

\* C20: call_api resolves the provider as the override if given, else the
\* persisted current_provider, and the model as the override if given, else that
\* provider's persisted model; a call_api without overrides that follows a
\* successful switch_provider uses the provider that switch selected (or left
\* selected) and the model persisted for it (the model just switched to, when
\* the switch named one).
C20_CallUsesPersistedSelection ==
    /\ [](last.op = "call_api" =>
            /\ last.r.config.kind = "current" => last.r.provider = ResolvedProvider
            /\ last.r.entry # NoEntry => last.r.entry.model = ResolvedModel)
    /\ [][(last.op = "switch_provider" /\ last.r.outcome = "True" /\ PlainCall(last')) =>
            /\ last'.r.provider = CurrentProviderOr(cfgFile, "zai")
            /\ last.provider_arg # None => last'.r.provider = last.provider_arg
            /\ cfgFile.kind = "current" =>
                  last'.r.entry.model = cfgFile.providers[last'.r.provider].model
            /\ last.model_arg # None => last'.r.entry.model = last.model_arg]_vars

\* C20 witness: a call_api without overrides posted to gemini with the model
\* gemini-2.5-pro, a selection only a switch_provider can have persisted.
C20_Witness ==
    /\ PlainCall(last) /\ ~NoNetwork
    /\ last.r.provider = "gemini"
    /\ last.r.entry.model = "gemini-2.5-pro"
    /\ last.before.current_provider = "gemini"

\* The model a load of the file yields for provider p ("" when it yields no
\* entry for p).
PersistedModelIn(file, p) ==
    LET config == load_config(file, "ok").config
    IN  IF config.kind = "current" /\ p \in DOMAIN config.providers
        THEN config.providers[p].model ELSE ""

\* C21: a per-call model override is applied in memory only: after a call_api
\* with a model override has returned, with any outcome, the persisted model of
\* the provider is what it was before the call, and a call_api without a model
\* override that follows it uses that persisted model.  (Where load_config's
\* own write of a missing or old-format file failed part-way the file holds no
\* model at all: that file is the subject of C25.)
C21_ModelOverrideIsNotPersisted ==
    /\ []((last.op = "call_api" /\ last.model_arg # None) =>
            /\ last.before.kind = "current" => cfgFile = last.before
            /\ cfgFile.kind # "corrupt" =>
                  PersistedModelIn(cfgFile, last.r.provider)
                      = PersistedModelIn(last.before, last.r.provider))
    /\ [][(/\ last.op = "call_api" /\ last.model_arg # None
            /\ last'.op = "call_api" /\ last'.model_arg = None
            /\ last'.r.provider = last.r.provider
            /\ last'.r.entry # NoEntry) =>
               last'.r.entry.model = PersistedModelIn(last.before, last.r.provider)]_vars

\* C21 witness: a call_api with a model override has posted and returned, and
\* the persisted model of its provider is not the override.
C21_Witness ==
    /\ last.op = "call_api" /\ last.model_arg = "gemini-2.5-pro" /\ ~NoNetwork
    /\ last.r.provider = "gemini"
    /\ cfgFile.kind = "current"
    /\ cfgFile.providers["gemini"].model # "gemini-2.5-pro"

\* C25: a switch_provider call that returns False leaves the persisted
\* configuration unchanged (so a valid provider given with an invalid model
\* leaves current_provider as it was).
C25_FailedSwitchLeavesFileUnchanged ==
    (last.op = "switch_provider" /\ last.r.outcome = "False") => cfgFile = last.before

\* A fresh install: the first load has created the default configuration.
InitFresh ==
    /\ cfgFile = DefaultConfig
    /\ last = Idle
    /\ DecoderIdle
    /\ BodyIdle
    /\ ConcurrentIdle
    /\ SessionIdle
    /\ TrashIdle

SpecFresh == InitFresh /\ [][Next]_vars

\* The persisted configuration selects a configured provider and a listed
\* model for each of the five providers.
SelectionValid(file) ==
    /\ file.kind = "current"
    /\ file.has_current
    /\ file.current_provider \in DOMAIN file.providers
    /\ \A p \in PROVIDERS :
          /\ p \in DOMAIN file.providers
          /\ file.providers[p].model \in AVAILABLE_MODELS[p]

\* C26: starting from the default configuration created on first load, after
\* any sequence of switch_provider calls the persisted current_provider is a
\* key of the persisted providers and the persisted model of each of the five
\* providers is a member of AVAILABLE_MODELS for that provider.
C26_FreshSelectionStaysValid == SelectionValid(cfgFile)

-----------------------------------------------------------------------------
(* The decoder as a state machine over a finite response *)

MaxLines == 3

Copies == {"build", "src"}

Streams(prov) == UNION {[1..n -> LinesFor(prov)] : n \in 0..MaxLines}

DispatcherIdle ==
    /\ cfgFile = MissingFile
    /\ last = Idle
    /\ SessionIdle
    /\ TrashIdle

InitDecode ==
    /\ DispatcherIdle
    /\ BodyIdle
    /\ ConcurrentIdle
    /\ dprov \in PROVIDERS
    /\ dcopy \in Copies
    /\ lines \in Streams(dprov)
    /\ pos = 0
    /\ out = <<>>
    /\ dstatus = "running"
    /\ pulling = FALSE

\* A parse_stream that is an ordinary function collecting the fragments: its
\* body runs whether or not anybody is pulling.
GeneratorRunsEagerly(p) == TRUE

\* parse_stream is a generator function (its body holds `yield`) over
\* response.iter_lines() of a stream=True response: its body runs only inside
\* a next() of the caller, from the previous yield up to the next one.
GeneratorRuns(p) == p

\* The caller pulls: one iteration of `for chunk in response_stream` calls
\* next() on the suspended generator.
Pull ==
    /\ dstatus = "running"
    /\ ~pulling
    /\ pulling' = TRUE
    /\ UNCHANGED <<dprov, dcopy, lines, pos, out, dstatus>>
    /\ UNCHANGED <<cfgVars, bodyVars, conVars, chatVars, fsVars>>

\* One iteration of the for loop: the next line is taken from iter_lines() and
\* the generator yields its fragment (and is suspended), goes on, or raises.
ReadLine ==
    /\ dstatus = "running"
    /\ GeneratorRuns(pulling)
    /\ pos < Len(lines)
    /\ LET res == ParseLine(dcopy, dprov, LineOf(lines[pos + 1]))
       IN  /\ pos' = pos + 1
           /\ out' = IF res.kind = "yield"
                     THEN Append(out, [line |-> pos + 1, t |-> res.t, v |-> res.v])
                     ELSE out
           /\ dstatus' = IF res.kind = "raise" THEN "raised" ELSE "running"
           /\ pulling' = IF res.kind = "skip" THEN pulling ELSE FALSE
    /\ UNCHANGED <<dprov, dcopy, lines>>
    /\ UNCHANGED <<cfgVars, bodyVars, conVars, chatVars, fsVars>>

\* iter_lines() is exhausted: the generator returns.
EndOfStream ==
    /\ dstatus = "running"
    /\ GeneratorRuns(pulling)
    /\ pos = Len(lines)
    /\ dstatus' = "exhausted"
    /\ pulling' = FALSE
    /\ UNCHANGED <<dprov, dcopy, lines, pos, out>>
    /\ UNCHANGED <<cfgVars, bodyVars, conVars, chatVars, fsVars>>

\* What response.iter_lines() does when the connection is closed or dropped
\* before the body is complete: it stops (the generator returns), or it raises
\* the transport error (ChunkedEncodingError, ConnectionError), which the
\* `for` statement of parse_stream lets through to whoever is pulling.
AbortOutcomes == {"closed", "broken"}

\* The response stream is closed or aborted while the generator is running.
Abort ==
    /\ dstatus = "running"
    /\ GeneratorRuns(pulling)
    /\ \E how \in AbortOutcomes : dstatus' = how
    /\ pulling' = FALSE
    /\ UNCHANGED <<dprov, dcopy, lines, pos, out>>
    /\ UNCHANGED <<cfgVars, bodyVars, conVars, chatVars, fsVars>>

NextDecode == Pull \/ ReadLine \/ EndOfStream \/ Abort

SpecDecode == InitDecode /\ [][NextDecode]_vars

-----------------------------------------------------------------------------
(* Properties of the decoders *)

\* Field access that never fails: the value at a key / at position 0, or null.
Field(x, key) == IF x.t = "obj" /\ key \in DOMAIN x.v THEN x.v[key] ELSE JNull
FirstOf(x) == IF x.t = "arr" /\ Len(x.v) > 0 THEN x.v[1] ELSE JNull
TextOf(x) == IF x.t = "str" THEN x.v ELSE ""

DataPrefixed(prov) == prov \in {"zai", "openai", "claude"}

\* The text value a line carries for a provider ("" when the line does not
\* qualify): the provider's framing and field path, as the specification
\* of the decoders gives them.
QualifyingText(prov, line) ==
    IF ~line.utf8 \/ line.k # "json" \/ line.prefix # (IF DataPrefixed(prov) THEN "data: " ELSE "")
    THEN ""
    ELSE CASE prov \in {"zai", "openai"} ->
                TextOf(Field(Field(FirstOf(Field(line.j, "choices")), "delta"), "content"))
           [] prov = "claude" ->
                IF TextOf(Field(line.j, "type")) = "content_block_delta"
                THEN TextOf(Field(Field(line.j, "delta"), "text")) ELSE ""
           [] prov = "gemini" ->
                TextOf(Field(FirstOf(Field(Field(FirstOf(Field(line.j, "candidates")),
                                                 "content"), "parts")), "text"))
           [] prov = "qwen" ->
                TextOf(Field(Field(FirstOf(Field(Field(line.j, "output"), "choices")),
                                   "message"), "content"))

RECURSIVE ExpectedFragments(_, _, _)
ExpectedFragments(prov, ls, n) ==
    IF n = 0 THEN <<>>
    ELSE LET text == QualifyingText(prov, LineOf(ls[n]))
         IN  IF text = "" THEN ExpectedFragments(prov, ls, n - 1)
             ELSE Append(ExpectedFragments(prov, ls, n - 1), text)

Texts(frags) == [i \in 1..Len(frags) |-> frags[i].v]

Finished == dstatus \in {"exhausted", "raised"}

\* A line whose payload is not valid JSON: text after "data: " that does not
\* parse (zai, openai, claude), a non-empty line that does not parse (gemini, qwen).
InvalidJsonLine(prov, line) ==
    /\ line.utf8
    /\ IF DataPrefixed(prov) THEN line.prefix = "data: " /\ line.k = "garbage"
       ELSE ~Blank(line) /\ ~(line.prefix = "" /\ line.k = "json")

\* C8: for each provider class, parse_stream over any finite sequence of lines
\* yields exactly the text values of the qualifying lines, in line order, nothing
\* added, dropped or reordered (checked on the build copy, the one the claim cites).
C8_DecodeYieldsExactlyQualifyingTexts ==
    (Finished /\ dcopy = "build") =>
        Texts(out) = ExpectedFragments(dprov, lines, Len(lines))

\* C9: in every provider's parse_stream, in both copies of providers.py, a line
\* whose payload is not valid JSON is skipped without raising, and a well-formed
\* fragment line right after it is still emitted.
C9_InvalidJsonLineSkipped ==
    \A i \in 1..pos :
        InvalidJsonLine(dprov, LineOf(lines[i])) =>
            /\ ~(dstatus = "raised" /\ pos = i)
            /\ (pos > i /\ QualifyingText(dprov, LineOf(lines[i + 1])) # "") =>
                  \E j \in 1..Len(out) :
                      /\ out[j].line = i + 1
                      /\ out[j].v = QualifyingText(dprov, LineOf(lines[i + 1]))

\* C10: in the zai and openai parse_stream, in both copies of providers.py, a
\* line "data: [DONE]" produces no fragment and raises no error.
C10_DoneLineSilent ==
    \A i \in 1..pos :
        (dprov \in {"zai", "openai"} /\ lines[i] = "done") =>
            /\ ~(dstatus = "raised" /\ pos = i)
            /\ \A j \in 1..Len(out) : out[j].line # i

\* C11: in the zai and openai parse_stream, once a line with the [DONE] payload
\* or an empty payload has been read the decoder terminates: no line after it
\* produces a fragment.
C11_NoFragmentAfterDoneOrEmpty ==
    \A i \in 1..pos :
        (dprov \in {"zai", "openai"} /\ lines[i] \in {"done", "data_empty"}) =>
            \A j \in 1..Len(out) : out[j].line <= i

\* A line that is well-formed JSON in the provider's framing.
WellFormedJsonLine(prov, line) ==
    /\ line.utf8
    /\ line.k = "json"
    /\ line.prefix = (IF DataPrefixed(prov) THEN "data: " ELSE "")

\* C12: a line that is well-formed JSON never makes a decoder raise; when it
\* does not have the expected field path it yields no fragment and decoding goes
\* on with the next line (checked on the build copy, the one the claim cites).
C12_NoLineRaises ==
    dcopy = "build" =>
        \A i \in 1..pos :
            WellFormedJsonLine(dprov, LineOf(lines[i])) =>
                /\ ~(dstatus = "raised" /\ pos = i)
                /\ QualifyingText(dprov, LineOf(lines[i])) = "" =>
                      \A j \in 1..Len(out) : out[j].line # i

FailedToGetResponse ==
    \E i \in 1..Len(last.r.console) :
        last.r.console[i] = <<"Failed to get response from AI">>

\* C14: a successful request whose stream produces zero fragments is not an
\* error: call_api returns a fragment sequence (not None), and chat does not
\* print "Failed to get response from AI" for it, while it does print it when the
\* POST failed at transport level.
C14_EmptyReplyIsNotFailure ==
    (Dispatched /\ ~NoNetwork) =>
        /\ (last.net = "ok" /\ ExpectedFragments(ResolvedProvider, last.r.response,
                                                  Len(last.r.response)) = <<>>) =>
              /\ last.r.outcome # "None"
              /\ ~FailedToGetResponse
        /\ last.op = "call_api" /\ last.net = "ok" => last.r.outcome = "stream"
        /\ last.op = "chat" /\ last.net # "ok" =>
              /\ last.r.outcome = "None"
              /\ FailedToGetResponse

\* C14 witness: chat got a reply of two lines that carry no fragment, printed
\* no chunk and ended normally.
C14_Witness ==
    /\ last.op = "chat" /\ last.net = "ok" /\ ~NoNetwork
    /\ Len(last.r.response) = 2
    /\ last.r.outcome = "stream" /\ last.r.fragments = <<>>
    /\ ~FailedToGetResponse

\* C15: when the response stream is closed or aborted after k fragments were
\* delivered, the fragment sequence ends normally: pulling does not raise and
\* the caller has exactly the fragments of the lines read before the abort.
C15_AbortEndsSequenceWithoutRaise ==
    dstatus \in AbortOutcomes =>
        /\ dstatus = "closed"
        /\ out = Decode(dcopy, dprov, lines, pos).out

\* C22: the fragment sequence is lazy and pull-driven: a line is consumed only
\* inside a pull of the caller, so none is consumed before the first pull, and
\* whenever the generator is suspended between pulls the last line consumed is
\* the line of the fragment most recently delivered (nothing is read ahead).
C22_FragmentsAreLazyAndPullDriven ==
    /\ []((dstatus = "running" /\ ~pulling) =>
             IF out = <<>> THEN pos = 0 ELSE out[Len(out)].line = pos)
    /\ [][pos' # pos => pulling]_vars

\* C22 witness: the caller has pulled twice; the first pull consumed a line
\* without text and the line of the first fragment, and the generator is
\* suspended with the third line unread.
C22_Witness ==
    /\ dstatus = "running" /\ ~pulling
    /\ Len(lines) = 3 /\ pos = 2
    /\ Len(out) = 1 /\ out[1].line = 2

\* C23: in the zai, openai and claude decoders a line that does not begin with
\* the six characters "data: " never produces a fragment, and the claude
\* decoder produces a fragment for a data line only when its type is
\* "content_block_delta" and its delta.text is non-empty.
C23_OnlyDataLinesProduceFragments ==
    DataPrefixed(dprov) =>
        \A j \in 1..Len(out) :
            LET line == LineOf(lines[out[j].line])
            IN  /\ line.prefix = "data: "
                /\ dprov = "claude" =>
                      /\ Field(line.j, "type") = JStr("content_block_delta")
                      /\ Field(Field(line.j, "delta"), "text") \notin {JNull, JStr("")}

\* C23 witness: the claude decoder has consumed a delta line prefixed "data:"
\* without the space, a data line of another event type carrying a text, and a
\* content_block_delta line, and has produced the one fragment of the third.
C23_Witness ==
    /\ dprov = "claude"
    /\ lines = <<"cl_nospace", "cl_other", "cl_Hel">>
    /\ pos = 3
    /\ Len(out) = 1 /\ out[1].line = 3 /\ out[1].v = "Hel"

\* C24: every fragment a decoder emits is a non-empty string, and once the
\* stream is exhausted the number of fragments equals the number of lines that
\* carry a non-empty text.
C24_EveryFragmentIsNonEmptyString ==
    /\ \A j \in 1..Len(out) : out[j].t = "str" /\ out[j].v # ""
    /\ dstatus = "exhausted" =>
          Len(out) = Len(ExpectedFragments(dprov, lines, Len(lines)))

-----------------------------------------------------------------------------
(* prepare_body applied to a conversation *)

MaxMessages == 3

Roles == {"system", "user", "assistant"}
Contents == {"a", "b"}

Conversations ==
    UNION {[1..n -> {Message(r, c) : r \in Roles, c \in Contents}] : n \in 0..MaxMessages}

InitBody ==
    /\ DispatcherIdle
    /\ DecoderIdle
    /\ messages \in Conversations
    /\ body = NoBody
    /\ ConcurrentIdle

\* provider.prepare_body(messages), for the provider instance of any class.
PrepareBody ==
    /\ body.prov = None
    /\ \E p \in PROVIDERS :
         body' = [prov |-> p, json |-> prepare_body(p, DefaultModel(p), messages)]
    /\ UNCHANGED messages
    /\ UNCHANGED <<cfgVars, decVars, conVars, chatVars, fsVars>>

NextBody == PrepareBody

SpecBody == InitBody /\ [][NextBody]_vars

\* The message list of a request body, and the text an entry of it carries.
MessageList(b) ==
    CASE b.prov = "gemini" -> b.json.contents
      [] b.prov = "qwen" -> b.json.input.messages
      [] OTHER -> b.json.messages

EntryText(prov, entry) ==
    IF prov = "gemini" THEN entry.parts[1].text ELSE entry.content

\* C17: for every provider and every conversation of N messages, prepare_body
\* produces a message list (messages, contents or input.messages) of exactly N
\* entries, in the original order, each with the content text of the message at
\* its position.
C17_BodyKeepsEveryMessageInOrder ==
    body.prov # None =>
        /\ Len(MessageList(body)) = Len(messages)
        /\ \A i \in 1..Len(messages) :
              EntryText(body.prov, MessageList(body)[i]) = messages[i].content

\* C17 witness: a gemini body for three messages, a system message first, with
\* different texts at positions 1 and 2.
C17_Witness ==
    /\ body.prov = "gemini"
    /\ Len(messages) = MaxMessages
    /\ messages[1].role = "system"
    /\ messages[1].content # messages[2].content
    /\ Len(body.json.contents) = MaxMessages

\* C18: in the gemini request body an entry has role "model" exactly when the
\* message at its position has role "assistant" (for messages of role system,
\* user or assistant).
C18_GeminiModelRoleOnlyForAssistant ==
    body.prov = "gemini" =>
        \A i \in 1..Len(messages) :
            (body.json.contents[i].role = "model") <=> (messages[i].role = "assistant")

-----------------------------------------------------------------------------
(* Two call_api invocations in flight at once, each pulled by its own      *)
(* caller (providers.py 275-306).                                          *)

MaxConcurrentLines == 2

ConcurrentProviders == {"zai", "gemini"}

ConcurrentLinesFor(prov) ==
    IF prov = "zai" THEN {"zai_Hel", "zai_lo", "ge_Hel", "data_null"}
    ELSE {"ge_Hel", "ge_lo", "zai_lo", "ge_noparts"}

ConcurrentStreams(prov) ==
    UNION {[1..n -> ConcurrentLinesFor(prov)] : n \in 0..MaxConcurrentLines}

\* A response kept on an object all calls share: every generator reads the
\* response of the first call.
ResponseOfSharedInstance(cs, c) == cs[1].lines

\* The response a call's generator iterates: the one its own requests.post
\* returned, passed as argument to parse_stream of its own provider instance.
ResponseOf(cs, c) == cs[c].lines

InitConcurrent ==
    /\ DispatcherIdle
    /\ DecoderIdle
    /\ BodyIdle
    /\ ConcurrentIdle

\* call_api up to `return provider.parse_stream(response)`: a provider instance
\* built from a copy of the configuration entry, a response of its own, and a
\* generator that has not read a line yet.
StartCall(c) ==
    /\ calls[c].status = "idle"
    /\ \E prov \in ConcurrentProviders : \E ls \in ConcurrentStreams(prov) :
         calls' = [calls EXCEPT ![c] = [prov |-> prov, lines |-> ls, pos |-> 0,
                                        out |-> <<>>, status |-> "running"]]
    /\ UNCHANGED <<cfgVars, decVars, bodyVars, chatVars, fsVars>>

\* One loop iteration of the generator of call c, driven by its caller's pull.
PullLine(c) ==
    /\ calls[c].status = "running"
    /\ calls[c].pos < Len(ResponseOf(calls, c))
    /\ LET n == calls[c].pos + 1
           res == ParseLine("build", calls[c].prov, LineOf(ResponseOf(calls, c)[n]))
       IN  calls' = [calls EXCEPT
                       ![c].pos = n,
                       ![c].out = IF res.kind = "yield"
                                  THEN Append(@, [line |-> n, t |-> res.t, v |-> res.v])
                                  ELSE @,
                       ![c].status = IF res.kind = "raise" THEN "raised" ELSE "running"]
    /\ UNCHANGED <<cfgVars, decVars, bodyVars, chatVars, fsVars>>

\* The response of call c is exhausted: its generator returns.
EndCall(c) ==
    /\ calls[c].status = "running"
    /\ calls[c].pos = Len(ResponseOf(calls, c))
    /\ calls' = [calls EXCEPT ![c].status = "exhausted"]
    /\ UNCHANGED <<cfgVars, decVars, bodyVars, chatVars, fsVars>>

NextConcurrent ==
    \/ \E c \in CallIds : StartCall(c)
    \/ \E c \in CallIds : PullLine(c)
    \/ \E c \in CallIds : EndCall(c)

SpecConcurrent == InitConcurrent /\ [][NextConcurrent]_vars

\* C16: two call_api invocations running concurrently never leak fragments
\* across each other: under every interleaving of their line reads, each
\* returned sequence holds exactly the fragments decoded from the lines read of
\* its own response, in order, and ends only when its own response is exhausted.
C16_ConcurrentCallsAreIsolated ==
    \A c \in CallIds :
        calls[c].status # "idle" =>
            /\ calls[c].out =
                  Decode("build", calls[c].prov, calls[c].lines, calls[c].pos).out
            /\ calls[c].status = "exhausted" => calls[c].pos = Len(calls[c].lines)

\* C16 witness: both calls are in mid-stream, each has read one of its two
\* lines and yielded one fragment, and the two fragments differ.
C16_Witness ==
    /\ \A c \in CallIds :
          /\ calls[c].status = "running"
          /\ Len(calls[c].lines) = 2 /\ calls[c].pos = 1 /\ Len(calls[c].out) = 1
    /\ calls[1].prov # calls[2].prov
    /\ calls[1].out[1].v # calls[2].out[1].v

-----------------------------------------------------------------------------
(* The interactive chat session (osram_cli.py 1241-1264, 1284-1320) *)

MaxTurns == 3

\* chat() up to "# Start chat": the provider and the model of the session.
ChatResolve(file, provider_arg, model_arg, disk) ==
    LET ld == load_config(file, disk)
        config == ld.config
        provider == IF Falsy(provider_arg) THEN CurrentProviderOr(config, "zai")
                    ELSE provider_arg
        S(status, model) ==
            [status |-> status, provider |-> provider, model |-> model, file |-> ld.file]
    IN  IF config.kind = "empty" THEN S("raise", None)
        ELSE IF provider \notin DOMAIN config.providers THEN S("return", None)
        ELSE
        LET provider_config == config.providers[provider]
        IN  IF "api_key" \notin provider_config.has \/ provider_config.api_key = ""
            THEN S("return", None)
            ELSE S("prompt",
                   IF ~Falsy(model_arg) THEN model_arg
                   ELSE IF "model" \in provider_config.has THEN provider_config.model
                   ELSE None)

\* The files a session starts on: the program's own, with keys filled in, and
\* one edited by hand (`osram config` opens the file in an editor) whose gemini
\* entry has an empty model.
SessionFiles ==
    { Config("current", TRUE, "zai", KeyedProviders(PROVIDERS), "", ""),
      Config("current", TRUE, "gemini", KeyedProviders({"gemini", "openai"}), "", ""),
      Config("current", TRUE, "gemini",
             [KeyedProviders(PROVIDERS) EXCEPT !["gemini"].model = ""], "", "") }

SessionProviderArgs == {None, "zai"}
SessionModelArgs == {None, "GLM-4.5"}

InitSession ==
    /\ cfgFile \in SessionFiles
    /\ last = Idle
    /\ DecoderIdle
    /\ BodyIdle
    /\ ConcurrentIdle
    /\ SessionIdle
    /\ TrashIdle

\* `osram chat` without a message: the head of chat(), then messages = [].
StartChat ==
    /\ session.status = "none"
    /\ \E provider_arg \in SessionProviderArgs, model_arg \in SessionModelArgs,
          disk \in DiskOutcomes(cfgFile) :
         \E s \in {ChatResolve(cfgFile, provider_arg, model_arg, disk)} :
             /\ cfgFile' = s.file
             /\ session' = [NoSession EXCEPT !.status = s.status,
                                             !.provider = s.provider,
                                             !.model = s.model]
    /\ UNCHANGED <<last, decVars, bodyVars, conVars, fsVars>>

\* The model the provider instance of a call_api was built with (None when the
\* call ended before it had a configuration entry with a model).
UsedModel(r) == IF "model" \in r.entry.has THEN r.entry.model ELSE None

\* A loop that leaves the selection to call_api: call_api(messages).
TurnSelectionFromConfig(s) == [provider |-> None, model |-> None]

\* call_api(messages, provider, model): the locals of chat(), assigned once
\* before the loop.
TurnSelection(s) == [provider |-> s.provider, model |-> s.model]

\* The nth line the user types (not blank, not exit/quit).
UserInput(n) == <<"input", n>>

\* One pass of the while loop on an input line: the user message is appended,
\* call_api is called with the session's provider and model, and the assistant
\* message is appended when the reply was streamed to its end; `except
\* Exception` prints the error and the loop goes on.
ChatTurn ==
    /\ session.status = "prompt"
    /\ session.turns < MaxTurns
    /\ \E net \in NetOutcomes, disk \in DiskOutcomes(cfgFile) :
         \E response \in RepliesTo(net) :
           LET n == session.turns + 1
               msgs == Append(session.messages, Message("user", UserInput(n)))
           IN  \E r \in {ChatReply(<< <<"AI: ">> >>,
                                   call_api(cfgFile, TurnSelection(session).provider,
                                            TurnSelection(session).model,
                                            net, disk, response))} :
                 /\ cfgFile' = r.file
                 /\ session' =
                      [session EXCEPT
                         !.turns = n,
                         !.messages =
                            IF r.outcome = "stream"
                            THEN Append(msgs, Message("assistant", Texts(r.fragments)))
                            ELSE msgs,
                         !.call = [made |-> TRUE, provider |-> r.provider,
                                   model |-> UsedModel(r), sent |-> msgs]]
    /\ UNCHANGED <<last, decVars, bodyVars, conVars, fsVars>>

\* The user types exit or quit, or presses Ctrl-C at the prompt.
ExitChat ==
    /\ session.status = "prompt"
    /\ session' = [session EXCEPT !.status = "ended"]
    /\ UNCHANGED <<cfgVars, decVars, bodyVars, conVars, fsVars>>

\* Another process runs `osram switch` while the session waits at its prompt.
OtherProcessSwitch ==
    /\ session.status = "prompt"
    /\ \E provider_arg \in SwitchProviderArgs, model_arg \in SwitchModelArgs,
          disk \in DiskResults :
         cfgFile' = switch_provider(cfgFile, provider_arg, model_arg, disk).file
    /\ UNCHANGED <<last, decVars, bodyVars, conVars, chatVars, fsVars>>

NextSession == StartChat \/ ChatTurn \/ ExitChat \/ OtherProcessSwitch

SpecSession == InitSession /\ [][NextSession]_vars

\* user, assistant, user, ... from the first message on
Alternates(msgs) ==
    \A i \in 1..Len(msgs) :
        msgs[i].role = (IF i % 2 = 1 THEN "user" ELSE "assistant")

\* C27: in the interactive chat loop the conversation passed to call_api on
\* every turn strictly alternates user and assistant roles and ends with the
\* newest user message, whatever happened on the earlier turns.
C27_ConversationAlternates ==
    session.call.made =>
        /\ Alternates(session.call.sent)
        /\ session.call.sent[Len(session.call.sent)] =
              Message("user", UserInput(session.turns))

\* C28: within one interactive session every call_api uses the provider and
\* the model resolved when the chat command started, whatever another process
\* has switched to in the meantime.
C28_SessionProviderAndModelAreFixed ==
    (session.call.made /\ session.call.model # None) =>
        /\ session.call.provider = session.provider
        /\ session.call.model = session.model

\* C28 amended: every call_api of a session uses the provider resolved at its
\* start, and the model resolved at its start whenever that model is not empty
\* (with an empty or absent model each turn uses the model persisted then).
C28_SessionSelectionFixedWhenModelResolved ==
    session.call.made =>
        /\ session.call.provider = session.provider
        /\ (~Falsy(session.model) /\ session.call.model # None) =>
              session.call.model = session.model

\* C28 witness: the session resolved zai and its default model from the file;
\* another process has since switched to gemini and to another gemini model;
\* the second turn still used zai and the model of the start.
C28_Witness ==
    /\ session.status = "prompt" /\ session.turns = 2
    /\ session.provider = "zai" /\ session.model = "GLM-4-Plus"
    /\ cfgFile.kind = "current"
    /\ cfgFile.current_provider = "gemini"
    /\ cfgFile.providers["gemini"].model = "gemini-2.5-pro"
    /\ session.call.made
    /\ session.call.provider = "zai" /\ session.call.model = "GLM-4-Plus"

-----------------------------------------------------------------------------
(* delete_file_or_path and the trash directory (osram_cli.py 453-483) *)

MaxDeletions == 4

\* An entry name is the list of counters appended to the stem of "a.txt":
\* <<>> is a.txt, <<1>> is a_1.txt, <<1, 2>> is a_1_2.txt.  Paths with these
\* two base names are deleted.
BaseNames == {<<>>, <<1>>}

\* What is deleted: a regular file, or a symbolic link with a relative target
\* (valid where it lies, dangling once it is moved into the trash).
ItemKinds == {"file", "link"}

\* Path.exists() on an entry of the trash: it follows symbolic links, so it is
\* False for a dangling link.
TrashExists(tr, name) == name \in DOMAIN tr /\ tr[name].kind # "link"

\* while dest_path.exists(): dest_path = trash_path / f"{stem}_{counter}{suffix}"
\* with stem and suffix taken from the current dest_path; counter += 1
RECURSIVE CollisionLoop(_, _, _)
CollisionLoop(tr, name, counter) ==
    IF ~TrashExists(tr, name) THEN name
    ELSE CollisionLoop(tr, Append(name, counter), counter + 1)

\* delete_file_or_path(path) for a path with the given base name; `present` is
\* os.path.exists(path).  shutil.move renames the path onto dest_path, which
\* replaces whatever entry (not a directory) lies there.
delete_file_or_path(tr, base, item, present) ==
    IF ~present
    THEN [trash |-> tr, moved |-> FALSE, dest |-> base,
          result |-> <<"Error: Path '", base, "' does not exist.">>]
    ELSE LET dest_path == CollisionLoop(tr, base, 1)
         IN  [trash |-> [n \in DOMAIN tr \cup {dest_path} |->
                            IF n = dest_path THEN item ELSE tr[n]],
              moved |-> TRUE, dest |-> dest_path,
              result |-> <<"Moved to trash: ", base, " -> ", dest_path>>]

InitTrash ==
    /\ DispatcherIdle
    /\ DecoderIdle
    /\ BodyIdle
    /\ ConcurrentIdle

\* `osram rm path` (or the same request through the assistant).
Delete ==
    /\ Len(trashed) < MaxDeletions
    /\ \E base \in BaseNames, kind \in ItemKinds, present \in BOOLEAN :
         LET item == [id |-> Len(trashed) + 1, kind |-> kind]
         IN  \E r \in {delete_file_or_path(trash, base, item, present)} :
               /\ trash' = r.trash
               /\ trashed' = IF r.moved THEN Append(trashed, item) ELSE trashed
    /\ UNCHANGED <<cfgVars, decVars, bodyVars, conVars, chatVars>>

NextTrash == Delete

SpecTrash == InitTrash /\ [][NextTrash]_vars

\* C29: delete_file_or_path never overwrites or removes an entry already in
\* the trash: every item moved to the trash so far is still there, and each
\* deletion that moves its target stores it under a name that did not exist
\* before and leaves every other entry as it was.
C29_TrashIsNeverOverwritten ==
    /\ [](\A i \in 1..Len(trashed) : \E n \in DOMAIN trash : trash[n] = trashed[i])
    /\ [][trashed' # trashed =>
            /\ \E n \in DOMAIN trash' \ DOMAIN trash :
                  trash'[n] = trashed'[Len(trashed')]
            /\ \A n \in DOMAIN trash : trash'[n] = trash[n]]_vars

====
